---- MODULE Spec2Model ----
(***************************************************************************)
(* Incremental synchronisation engine of maakaf_home_backend.              *)
(*                                                                         *)
(* IncrementalSyncService.syncUserRepoActivity (incremental-sync.service)  *)
(* and the SyncMetadataService watermark store, as a state machine.  Time  *)
(* is counted in whole hours and moves a sync interval at a time; every    *)
(* await of the source is a separate step,                                 *)
(* so that concurrent calls interleave exactly where the source suspends.  *)
(* Upstream timestamps are the clock value at creation (no clock skew).    *)
(***************************************************************************)
EXTENDS Integers, Sequences, FiniteSets, TLC

\* ------------------------------------------------------------------ bounds
MaxIntervals == 1      \* sync intervals explored after the initial instant
MaxCommits == 4        \* commits on the default branch
MaxPRs == 1            \* pull requests in the repository
MaxIssues == 1         \* issues in the repository
MaxComments == 1       \* comments per pull request / issue
MaxActivity == 1       \* items and comments created after the initial instant
MaxRequests == 2       \* direct requests to the store service

\* ----------------------------------------------------------- configuration
monthsToAnalyze == 6
incrementalSyncIntervalHours == 4
fullSyncIntervalHours == 24
maxIncrementalItems == 50
maxCommitsPerRepo == 100
maxPRsPerRepo == 100
maxIssuesPerRepo == 100
IncrementalCommitLimit == 100
IncrementalPRLimit == 50
IncrementalIssueLimit == 50
CommentLimit == 100

\* days = monthsToAnalyze * 30.44; window = days * 24 hours (whole hours)
analysisWindowHours == (monthsToAnalyze * 3044 * 24) \div 100

\* cacheValidityMs, in hours
cacheValidity == incrementalSyncIntervalHours

\* --------------------------------------------------------------- JS values
Undefined == -2        \* a missing field / undefined
NegInfinity == -1      \* Math.max() of no arguments; below every real number

\* x || 0
OrZero(x) == IF x = Undefined \/ x = 0 THEN 0 ELSE x

\* a || b
OrElse(a, b) == IF a = Undefined \/ a = 0 THEN b ELSE a

\* Math.max(...S)
MathMax(S) == IF S = {} THEN NegInfinity ELSE CHOOSE m \in S : \A y \in S : m >= y

\* seq.slice(0, n): the `first: n` argument of a connection
First(s, n) == IF Len(s) <= n THEN s ELSE SubSeq(s, 1, n)

Range(s) == {s[i] : i \in 1..Len(s)}

\* ------------------------------------------------------------------- names
Users == {"alice", "bob"}
NoLogin == "null"                      \* author: null
Logins == Users
Calls == {1, 2}                        \* slots for calls in progress
Kinds == {"commits", "pullRequests", "issues"}

StartNow == analysisWindowHours
EndNow == StartNow + MaxIntervals * incrementalSyncIntervalHours

ZeroTotals ==
  [commits |-> 0, pullRequests |-> 0, issues |-> 0, prComments |-> 0, issueComments |-> 0]

TotalKeys == {"commits", "pullRequests", "issues", "prComments", "issueComments"}

NoRecord == [absent |-> TRUE]          \* findOne(...) -> null
NoOutcome == [absent |-> TRUE]         \* the call has not returned a value
NoData == [commits |-> {}, pullRequests |-> {}, issues |-> {}]

EmptyRepo == [commits |-> <<>>, pullRequests |-> <<>>, issues |-> <<>>]

\* A repository that already holds activity dated exactly StartNow - window.
LegacyRepo ==
  [commits |-> << [oid |-> 2, login |-> "alice", committedDate |-> 0],
                  [oid |-> 1, login |-> NoLogin, committedDate |-> 0] >>,
   pullRequests |-> << [number |-> 1, login |-> "alice", createdAt |-> 0,
                        comments |-> << [login |-> "alice", createdAt |-> 0] >>] >>,
   issues |-> << [number |-> 1, login |-> "bob", createdAt |-> 0,
                  comments |-> <<>>] >>]

\* A repository whose only activity is two commits made at the initial instant.
RecentRepo ==
  [commits |-> << [oid |-> 2, login |-> "alice", committedDate |-> StartNow],
                  [oid |-> 1, login |-> "alice", committedDate |-> StartNow] >>,
   pullRequests |-> <<>>,
   issues |-> <<>>]

VARIABLES
  now,        \* Date.now(), in hours
  upstream,   \* the repository at the data source
  activity,   \* number of items and comments created since the initial instant
  store,      \* the sync-metadata collection, by username (one repository)
  documents,  \* number of sync-metadata documents held per username
  sink,       \* natural keys held by the commit / pull-request / issue collections
  call,       \* the locals of each syncUserRepoActivity invocation in progress
  audit,      \* per key: what the latest full sync saw (history, not program state)
  request     \* the latest direct request to the store service (history)

vars == <<now, upstream, activity, store, documents, sink, call, audit, request>>

\* ------------------------------------------------------------- data source
Since(commits, since) ==
  LET Test(c) == c.committedDate >= since IN SelectSeq(commits, Test)

Threads(nodes, limit) ==
  [i \in 1..Len(First(nodes, limit)) |->
     [nodes[i] EXCEPT !.comments = First(@, CommentLimit)]]

\* data.repository of the full-sync query
FullQuery(up, since) ==
  [history |-> First(Since(up.commits, since), maxCommitsPerRepo),
   pullRequests |-> Threads(up.pullRequests, maxPRsPerRepo),
   issues |-> Threads(up.issues, maxIssuesPerRepo)]

\* the `first:` argument of each connection of the full-sync query
FullFirst ==
  [commits |-> maxCommitsPerRepo, pullRequests |-> maxPRsPerRepo,
   issues |-> maxIssuesPerRepo]

\* the `first:` argument of each connection of the incremental query
IncrementalFirst ==
  [commits |-> IncrementalCommitLimit, pullRequests |-> IncrementalPRLimit,
   issues |-> IncrementalIssueLimit]

\* data.repository of the incremental query
IncrementalQuery(up, since) ==
  [history |-> First(Since(up.commits, since), IncrementalCommitLimit),
   pullRequests |-> Threads(up.pullRequests, IncrementalPRLimit),
   issues |-> Threads(up.issues, IncrementalIssueLimit)]

\* --------------------------------------------------------- activity filter
InFullWindowStrict(t, sixMonthsAgo) == t > sixMonthsAgo

\* full sync: new Date(x) >= sixMonthsAgo
InFullWindow(t, sixMonthsAgo) == t >= sixMonthsAgo

InIncrementalWindowInclusive(t, lastSyncDate) == t >= lastSyncDate

\* incremental sync: new Date(x) > lastSyncDate
InIncrementalWindow(t, lastSyncDate) == t > lastSyncDate

\* item.author?.login === username
\* an item without an author is taken for the user's
AuthoredByOrMissing(item, username) == item.login = NoLogin \/ item.login = username

AuthoredBy(item, username) == item.login # NoLogin /\ item.login = username

CommentSlots(threads) ==
  UNION {{<<i, j>> : j \in 1..Len(threads[i].comments)} : i \in 1..Len(threads)}

processAndCacheFullData(username, repository, sixMonthsAgo) ==
  LET Keep(x, t) == AuthoredBy(x, username) /\ InFullWindow(t, sixMonthsAgo)
      KeepCommit(c) == Keep(c, c.committedDate)
      KeepThread(p) == Keep(p, p.createdAt)
      Comments(threads) ==
        Cardinality({s \in CommentSlots(threads) :
           LET m == threads[s[1]].comments[s[2]] IN Keep(m, m.createdAt)})
  IN [commits |-> SelectSeq(repository.history, KeepCommit),
      pullRequests |-> SelectSeq(repository.pullRequests, KeepThread),
      issues |-> SelectSeq(repository.issues, KeepThread),
      prComments |-> Comments(repository.pullRequests),
      issueComments |-> Comments(repository.issues)]

processAndCacheIncrementalData(username, newData, lastSyncDate) ==
  LET Keep(x, t) == AuthoredBy(x, username) /\ InIncrementalWindow(t, lastSyncDate)
      KeepCommit(c) == Keep(c, c.committedDate)
      KeepThread(p) == Keep(p, p.createdAt)
      Comments(threads) ==
        Cardinality({s \in CommentSlots(threads) :
           LET m == threads[s[1]].comments[s[2]] IN Keep(m, m.createdAt)})
  IN [commits |-> SelectSeq(newData.commits, KeepCommit),
      pullRequests |-> SelectSeq(newData.pullRequests, KeepThread),
      issues |-> SelectSeq(newData.issues, KeepThread),
      prComments |-> Comments(newData.pullRequests),
      issueComments |-> Comments(newData.issues)]

\* the object both process* functions return
Counts(data) ==
  [commits |-> Len(data.commits), pullRequests |-> Len(data.pullRequests),
   issues |-> Len(data.issues), prComments |-> data.prComments,
   issueComments |-> data.issueComments]

\* only what the sink stores: commits, pull requests and issues
SumValuesPersisted(r) == r.commits + r.pullRequests + r.issues

\* Object.values(results).reduce((sum, count) => sum + count, 0)
SumValues(r) == r.commits + r.pullRequests + r.issues + r.prComments + r.issueComments

\* the natural keys handed to the three bulkUpsert calls
SinkKeys(data) ==
  [commits |-> {c.oid : c \in Range(data.commits)},
   pullRequests |-> {p.number : p \in Range(data.pullRequests)},
   issues |-> {i.number : i \in Range(data.issues)}]

\* the bulk upserts cacheDataToMongoDB starts (one per non-empty kind)
Promises(data) == {k \in Kinds : SinkKeys(data)[k] # {}}

\* ------------------------------------------------------- incremental merge
\* the marker is not compared: every fetched commit is taken as new
NewCommitsUnmarked(history, lastSync) == history

\* commit => !lastSync.lastCommitSha || commit.oid !== lastSync.lastCommitSha
NewCommits(history, lastSync) ==
  LET Test(c) == OrZero(lastSync.lastCommitSha) = 0 \/ c.oid # lastSync.lastCommitSha
  IN SelectSeq(history, Test)

\* the number marker is not compared: every fetched thread is taken as new
NewThreadsUnmarked(nodes, last) == nodes

\* node => node.number > (last || 0)
NewThreads(nodes, last) ==
  LET Test(p) == p.number > OrZero(last) IN SelectSeq(nodes, Test)

Add(a, b) ==
  [commits |-> a.commits + b.commits,
   pullRequests |-> a.pullRequests + b.pullRequests,
   issues |-> a.issues + b.issues,
   prComments |-> a.prComments + b.prComments,
   issueComments |-> a.issueComments + b.issueComments]

updatedTotalsNewOnly(lastSync, newResults) == newResults

updatedTotalsReread(lastSync, newResults) ==
  Add(store[lastSync.username].totalItems, newResults)

\* const updatedTotals = { commits: lastSync.totalItems.commits + newResults.commits, ... }
updatedTotals(lastSync, newResults) == Add(lastSync.totalItems, newResults)

\* --------------------------------------------------------- watermark store
findByUsernameAndRepo(st, username) == st[username]

\* findOne({username, repo, lastSyncDate: {$gte: expiryDate}}) found a document
isIncrementalSyncValid(st, username, expiryDate) ==
  st[username] # NoRecord /\ st[username].lastSyncDate >= expiryDate

\* a key with no record counts as requiring a full sync
isFullSyncRequiredOrAbsent(st, username, expiry) ==
  st[username] = NoRecord \/ st[username].lastSyncDate < expiry

\* findOne({username, repo, lastSyncDate: {$lt: fullSyncExpiryDate}}) found one
isFullSyncRequired(st, username, expiry) ==
  st[username] # NoRecord /\ st[username].lastSyncDate < expiry

\* a key of $set whose value is undefined is not written
SetField(old, f, v) ==
  IF v # Undefined THEN v ELSE IF old = NoRecord THEN Undefined ELSE old[f]

\* a filter on the repository alone: the update lands on whichever document
\* of the repository is found first
upsertByRepo(st, syncData) ==
  LET held == {u \in Users : st[u] # NoRecord}
      target == IF held = {} THEN syncData.username ELSE CHOOSE u \in held : TRUE
      old == st[target] IN
  [st EXCEPT ![target] =
     [username |-> syncData.username,
      lastSyncDate |-> syncData.lastSyncDate,
      lastCommitSha |-> SetField(old, "lastCommitSha", syncData.lastCommitSha),
      lastPRNumber |-> SetField(old, "lastPRNumber", syncData.lastPRNumber),
      lastIssueNumber |-> SetField(old, "lastIssueNumber", syncData.lastIssueNumber),
      totalItems |-> syncData.totalItems,
      fetchedAt |-> syncData.fetchedAt,
      createdAt |-> IF old = NoRecord THEN syncData.fetchedAt ELSE old.createdAt,
      updatedAt |-> syncData.fetchedAt]]

\* a key of syncData that $set writes: present, and not undefined
Present(syncData, f) ==
  f \in DOMAIN syncData /\ (f = "totalItems" \/ syncData[f] # Undefined)

\* the document is replaced: what syncData does not name is reset
upsertReplacing(st, syncData) ==
  LET old == st[syncData.username]
      Set(f, absent) == IF Present(syncData, f) THEN syncData[f] ELSE absent
  IN
  [st EXCEPT ![syncData.username] =
     [username |-> syncData.username,
      lastSyncDate |-> Set("lastSyncDate", Undefined),
      lastCommitSha |-> Set("lastCommitSha", Undefined),
      lastPRNumber |-> Set("lastPRNumber", Undefined),
      lastIssueNumber |-> Set("lastIssueNumber", Undefined),
      totalItems |-> Set("totalItems", ZeroTotals),
      fetchedAt |-> syncData.fetchedAt,
      createdAt |-> IF old = NoRecord THEN syncData.fetchedAt ELSE old.createdAt,
      updatedAt |-> syncData.fetchedAt]]

\* findOneAndUpdate({username, repo}, {$set: {...syncData, fetchedAt}}, {upsert: true})
\* under @Schema({ timestamps: true }): every update sets updatedAt, an insert
\* sets createdAt and the schema's default for totalItems
upsert(st, syncData) ==
  LET old == st[syncData.username]
      Set(f, absent) == IF Present(syncData, f) THEN syncData[f]
                        ELSE IF old = NoRecord THEN absent ELSE old[f]
  IN
  [st EXCEPT ![syncData.username] =
     [username |-> syncData.username,
      lastSyncDate |-> Set("lastSyncDate", Undefined),
      lastCommitSha |-> Set("lastCommitSha", Undefined),
      lastPRNumber |-> Set("lastPRNumber", Undefined),
      lastIssueNumber |-> Set("lastIssueNumber", Undefined),
      totalItems |-> Set("totalItems", ZeroTotals),
      fetchedAt |-> syncData.fetchedAt,
      createdAt |-> IF old = NoRecord THEN syncData.fetchedAt ELSE old.createdAt,
      updatedAt |-> syncData.fetchedAt]]

\* the totals are replaced by the argument instead of added to
incrementTotalItemsSet(st, username, incrementalItems, t) ==
  IF st[username] = NoRecord THEN st
  ELSE [st EXCEPT ![username].totalItems = incrementalItems,
                  ![username].lastSyncDate = t,
                  ![username].updatedAt = t]

\* updateOne({username, repo}, {$inc: {'totalItems.<k>': ...}, $set: {lastSyncDate}})
\* without upsert: no document matches, nothing is written
incrementTotalItems(st, username, incrementalItems, t) ==
  IF st[username] = NoRecord THEN st
  ELSE [st EXCEPT ![username].totalItems = Add(@, incrementalItems),
                  ![username].lastSyncDate = t,
                  ![username].updatedAt = t]

\* deleteOne({username, repo})
deleteByUsernameAndRepo(st, username) == [st EXCEPT ![username] = NoRecord]

\* records dated exactly olderThan are removed too
cleanupInclusive(st, olderThan) ==
  [u \in Users |->
     IF st[u] # NoRecord /\ st[u].lastSyncDate # Undefined /\ st[u].lastSyncDate <= olderThan
     THEN NoRecord ELSE st[u]]

\* deleteMany({lastSyncDate: {$lt: olderThan}})
cleanup(st, olderThan) ==
  [u \in Users |->
     IF st[u] # NoRecord /\ st[u].lastSyncDate # Undefined /\ st[u].lastSyncDate < olderThan
     THEN NoRecord ELSE st[u]]

\* ---------------------------------------------------------------- the sink
bulkUpsert(sk, kind, keys) == [sk EXCEPT ![kind] = @ \cup keys]

\* ----------------------------------------------------------------- history
\* what is authored by username upstream with a timestamp on or after horizon
AuthoredTotals(up, username, horizon) ==
  LET mine(x, t) == x.login = username /\ t >= horizon
      threads(s) == Cardinality({i \in 1..Len(s) : mine(s[i], s[i].createdAt)})
      comments(s) == Cardinality({p \in CommentSlots(s) :
                        mine(s[p[1]].comments[p[2]], s[p[1]].comments[p[2]].createdAt)})
  IN [commits |-> Cardinality({i \in 1..Len(up.commits) :
                     mine(up.commits[i], up.commits[i].committedDate)}),
      pullRequests |-> threads(up.pullRequests),
      issues |-> threads(up.issues),
      prComments |-> comments(up.pullRequests),
      issueComments |-> comments(up.issues)]

NoAudit == [quiet |-> FALSE, horizon |-> 0, fullTotals |-> ZeroTotals]

\* upstream has changed: no key's last full sync has seen everything any more
Disturbed == [u \in Users |-> [audit[u] EXCEPT !.quiet = FALSE]]

\* ------------------------------------------------------------ sync engine
\* no direct request has been made to the store service
NoRequest ==
  [op |-> "none", username |-> NoLogin, date |-> 0, delta |-> ZeroTotals,
   syncData |-> NoRecord, n |-> 0,
   before |-> [u \in Users |-> NoRecord], after |-> [u \in Users |-> NoRecord]]

IdleCall ==
  [pc |-> "idle", username |-> NoLogin, began |-> 0, branch |-> "none",
   lastSync |-> NoRecord, sixMonthsAgo |-> 0, since |-> 0,
   results |-> ZeroTotals, keys |-> NoData, pending |-> {}, itemsFetched |-> 0,
   syncData |-> NoRecord, outcome |-> NoOutcome, error |-> "none",
   queries |-> 0, sinkWrites |-> 0, upserts |-> 0, authored |-> ZeroTotals]

\* the locals left when call c throws: what the error carries, the bulk
\* upserts still in flight, and the counts of what the call has done
Thrown(c, why) ==
  [IdleCall EXCEPT
     !.pc = "failed", !.error = why,
     !.username = call[c].username, !.began = call[c].began,
     !.branch = call[c].branch, !.lastSync = call[c].lastSync,
     !.keys = call[c].keys, !.pending = call[c].pending,
     !.queries = call[c].queries, !.sinkWrites = call[c].sinkWrites,
     !.upserts = call[c].upserts]

\* Date.now() - this.monthsToAnalyze * 30.44 days
analysisStartDate(t) == t - analysisWindowHours

\* Date.now() - incrementalSyncIntervalHours / fullSyncIntervalHours
incrementalSyncExpiryDate(t) == t - incrementalSyncIntervalHours

fullSyncExpiryDate(t) == t - fullSyncIntervalHours

\* what ENABLE_INCREMENTAL_SYNC may be set to
Settings == {"unset", "true", "false"}

\* configService.get('ENABLE_INCREMENTAL_SYNC') ?? true
enableIncrementalSync(setting) == IF setting = "unset" THEN TRUE ELSE setting = "true"

\* a record exactly one interval old still counts as fresh
CacheValidInclusive(lastSync, t) == t - lastSync.lastSyncDate <= cacheValidity

CacheValidFlipped(lastSync, t) == t - lastSync.lastSyncDate > cacheValidity

\* cacheAge < cacheValidityMs
CacheValid(lastSync, t) == t - lastSync.lastSyncDate < cacheValidity

\* the branch syncUserRepoActivity takes on the record it read
\* a record older than the full-sync interval is synced in full again
BranchWithRefresh(lastSync, t) ==
  IF lastSync = NoRecord THEN "full"
  ELSE IF lastSync.lastSyncDate < fullSyncExpiryDate(t) THEN "full"
  ELSE IF CacheValid(lastSync, t) THEN "cache"
  ELSE "incremental"

Branch(lastSync, t) ==
  IF lastSync = NoRecord THEN "full"
  ELSE IF CacheValid(lastSync, t) THEN "cache"
  ELSE "incremental"

Outcome(totals, isIncremental, itemsFetched) ==
  [commits |-> totals.commits, pullRequests |-> totals.pullRequests,
   issues |-> totals.issues, prComments |-> totals.prComments,
   issueComments |-> totals.issueComments,
   isIncremental |-> isIncremental, itemsFetched |-> itemsFetched]

TotalsOf(r) == [k \in TotalKeys |-> r[k]]

\* return { ...lastSync.totalItems, isIncremental: false, itemsFetched: 0 }
CacheOutcome(lastSync) == Outcome(lastSync.totalItems, FALSE, 0)

\* graphqlRequest calls made on entering a branch
QueriesFor(branch) == IF branch = "cache" THEN 0 ELSE 1

IncrementalSinceHorizon(lastSync) == analysisStartDate(now)

\* variables.since of the incremental query: lastSync.lastSyncDate.toISOString()
IncrementalSince(lastSync) == lastSync.lastSyncDate

\* variables.since of the query of a branch
QuerySince(branch, lastSync, t) ==
  IF branch = "full" THEN analysisStartDate(t)
  ELSE IF branch = "incremental" THEN IncrementalSince(lastSync)
  ELSE 0

\* syncUserRepoActivity up to its second await: the watermark is read, the
\* branch is chosen and, unless the cache is fresh, the one query is sent.
syncUserRepoActivity(c, u) ==
  /\ call[c].pc = "idle"
  /\ LET lastSync == findByUsernameAndRepo(store, u)
         branch == Branch(lastSync, now)
     IN call' = [call EXCEPT ![c] =
          [IdleCall EXCEPT
             !.username = u, !.began = now, !.branch = branch, !.lastSync = lastSync,
             !.queries = QueriesFor(branch),
             !.sixMonthsAgo = IF branch = "full" THEN analysisStartDate(now) ELSE 0,
             !.since = QuerySince(branch, lastSync, now),
             !.pc = IF branch = "cache" THEN "done" ELSE "fetch",
             !.outcome = IF branch = "cache" THEN CacheOutcome(lastSync) ELSE NoOutcome]]
  /\ UNCHANGED <<now, upstream, activity, store, documents, sink, audit, request>>

\* findByUsernameAndRepo rejects
FindFails(c, u) ==
  /\ call[c].pc = "idle"
  /\ call' = [call EXCEPT ![c] = [IdleCall EXCEPT !.username = u, !.began = now,
                                                   !.pc = "failed", !.error = "store"]]
  /\ UNCHANGED <<now, upstream, activity, store, documents, sink, audit, request>>

\* the syncData object of performFullSync, before lastSyncDate is taken
FullSyncData(username, repository, results) ==
  [username |-> username,
   lastSyncDate |-> Undefined,
   lastCommitSha |-> IF Len(repository.history) > 0 THEN repository.history[1].oid
                     ELSE Undefined,
   lastPRNumber |-> MathMax({p.number : p \in Range(repository.pullRequests)}),
   lastIssueNumber |-> MathMax({i.number : i \in Range(repository.issues)}),
   totalItems |-> results,
   fetchedAt |-> Undefined]

\* the markers are taken from the new items alone, without the stored ones
IncrementalSyncDataNoFallback(username, lastSync, newData, newResults) ==
  [username |-> username,
   lastSyncDate |-> Undefined,
   lastCommitSha |-> IF Len(newData.commits) > 0 THEN newData.commits[1].oid
                     ELSE Undefined,
   lastPRNumber |-> MathMax({p.number : p \in Range(newData.pullRequests)}),
   lastIssueNumber |-> MathMax({i.number : i \in Range(newData.issues)}),
   totalItems |-> updatedTotals(lastSync, newResults),
   fetchedAt |-> Undefined]

\* the syncData object of performIncrementalSync, before lastSyncDate is taken
IncrementalSyncData(username, lastSync, newData, newResults) ==
  [username |-> username,
   lastSyncDate |-> Undefined,
   lastCommitSha |-> OrElse(IF Len(newData.commits) > 0 THEN newData.commits[1].oid
                            ELSE Undefined, lastSync.lastCommitSha),
   lastPRNumber |-> MathMax({p.number : p \in Range(newData.pullRequests)}
                            \cup {OrZero(lastSync.lastPRNumber)}),
   lastIssueNumber |-> MathMax({i.number : i \in Range(newData.issues)}
                               \cup {OrZero(lastSync.lastIssueNumber)}),
   totalItems |-> updatedTotals(lastSync, newResults),
   fetchedAt |-> Undefined]

\* lastSyncDate: new Date() and fetchedAt: new Date(), taken when upsert is called
Stamp(syncData, t) == [syncData EXCEPT !.lastSyncDate = t, !.fetchedAt = t]

\* the locals of call c once the response has been filtered and the bulk
\* upserts have been started; with nothing to write the upsert is called at once
Processed(c, data, syncData) ==
  LET started == Promises(data) IN
  [call[c] EXCEPT
     !.results = Counts(data),
     !.keys = SinkKeys(data), !.pending = started,
     !.itemsFetched = SumValues(Counts(data)),
     !.syncData = IF started = {} THEN Stamp(syncData, now) ELSE syncData,
     !.pc = IF started = {} THEN "upsert" ELSE "sink"]

performFullSync(c) ==
  LET username == call[c].username
      sixMonthsAgo == call[c].sixMonthsAgo
      repository == FullQuery(upstream, call[c].since)
      data == processAndCacheFullData(username, repository, sixMonthsAgo)
  IN [Processed(c, data, FullSyncData(username, repository, Counts(data))) EXCEPT
        !.authored = AuthoredTotals(upstream, username,
                                    call[c].began - analysisWindowHours)]

performIncrementalSync(c) ==
  LET username == call[c].username
      lastSync == call[c].lastSync
      repository == IncrementalQuery(upstream, call[c].since)
      newData == [commits |-> NewCommits(repository.history, lastSync),
                  pullRequests |-> NewThreads(repository.pullRequests, lastSync.lastPRNumber),
                  issues |-> NewThreads(repository.issues, lastSync.lastIssueNumber)]
      data == processAndCacheIncrementalData(username, newData, lastSync.lastSyncDate)
  IN [Processed(c, data, IncrementalSyncData(username, lastSync, newData, Counts(data)))
        EXCEPT !.authored = AuthoredTotals(upstream, username, audit[username].horizon)]

\* graphqlRequest resolves with data.repository present
QueryReturns(c) ==
  /\ call[c].pc = "fetch"
  /\ call' = [call EXCEPT ![c] = IF call[c].branch = "full" THEN performFullSync(c)
                                 ELSE performIncrementalSync(c)]
  /\ audit' = IF call[c].branch = "full"
              THEN [audit EXCEPT ![call[c].username].quiet = TRUE]
              ELSE audit
  /\ UNCHANGED <<now, upstream, activity, store, documents, sink, request>>

\* the failed request is sent once more
QueryFailsRetried(c, why) ==
  /\ call[c].pc = "fetch"
  /\ call[c].queries < 2
  /\ call' = [call EXCEPT ![c].queries = @ + 1]
  /\ UNCHANGED <<now, upstream, activity, store, documents, sink, audit, request>>

QueryFailsAfterCaching(c, why) ==
  /\ call[c].pc = "fetch"
  /\ call' = [call EXCEPT ![c] =
       [(IF call[c].branch = "full" THEN performFullSync(c)
         ELSE performIncrementalSync(c)) EXCEPT !.pc = "failed", !.error = why,
                                                !.syncData = NoRecord]]
  /\ UNCHANGED <<now, upstream, activity, store, documents, sink, audit, request>>

\* graphqlRequest throws (response.data.errors), the repository is null, or the
\* request itself is rejected (timeout)
QueryFails(c, why) ==
  /\ call[c].pc = "fetch"
  /\ call' = [call EXCEPT ![c] = Thrown(c, why)]
  /\ UNCHANGED <<now, upstream, activity, store, documents, sink, audit, request>>

\* one bulkUpsert of cacheDataToMongoDB resolves; Promise.all resolves with the
\* last one, and the watermark upsert is then called
BulkUpsertDone(c, kind) ==
  /\ call[c].pc \in {"sink", "failed"}
  /\ kind \in call[c].pending
  /\ sink' = bulkUpsert(sink, kind, call[c].keys[kind])
  /\ LET left == call[c].pending \ {kind}
         last == left = {} /\ call[c].pc = "sink"
     IN call' = [call EXCEPT
          ![c].pending = left,
          ![c].sinkWrites = @ + 1,
          ![c].syncData = IF last THEN Stamp(@, now) ELSE @,
          ![c].pc = IF last THEN "upsert" ELSE @]
  /\ UNCHANGED <<now, upstream, activity, store, documents, audit, request>>

BulkUpsertFailureSwallowed(c, kind) ==
  /\ call[c].pc \in {"sink", "failed"}
  /\ kind \in call[c].pending
  /\ LET left == call[c].pending \ {kind}
         last == left = {} /\ call[c].pc = "sink"
     IN call' = [call EXCEPT
          ![c].pending = left,
          ![c].syncData = IF last THEN Stamp(@, now) ELSE @,
          ![c].pc = IF last THEN "upsert" ELSE @]
  /\ UNCHANGED <<now, upstream, activity, store, documents, sink, audit, request>>

\* one bulkUpsert rejects: Promise.all rejects and the call throws; the
\* other bulk upserts already started are not cancelled
BulkUpsertFails(c, kind) ==
  /\ call[c].pc \in {"sink", "failed"}
  /\ kind \in call[c].pending
  /\ call' = [call EXCEPT ![c] =
       [Thrown(c, IF call[c].pc = "sink" THEN "sink" ELSE call[c].error)
          EXCEPT !.pending = @ \ {kind}]]
  /\ UNCHANGED <<now, upstream, activity, store, documents, sink, audit, request>>

\* the counts of this call are returned in place of the merged totals
SyncOutcomeDelta(c) ==
  Outcome(call[c].results, call[c].branch = "incremental", call[c].itemsFetched)

\* the value a sync returns after its watermark upsert
SyncOutcome(c) ==
  Outcome(call[c].syncData.totalItems, call[c].branch = "incremental",
          call[c].itemsFetched)

\* { upsert: true }: a document is inserted when the filter matches none
Upserted(docs, username) ==
  [docs EXCEPT ![username] = IF @ = 0 THEN 1 ELSE @]

\* syncMetadataService.upsert resolves and the call returns
UpsertDone(c) ==
  /\ call[c].pc = "upsert"
  /\ store' = upsert(store, call[c].syncData)
  /\ documents' = Upserted(documents, call[c].username)
  /\ call' = [call EXCEPT ![c].pc = "done", ![c].upserts = @ + 1,
                          ![c].outcome = SyncOutcome(c)]
  /\ audit' = IF call[c].branch = "full"
              THEN [audit EXCEPT ![call[c].username].horizon = call[c].sixMonthsAgo,
                                 ![call[c].username].fullTotals = call[c].syncData.totalItems]
              ELSE audit
  /\ UNCHANGED <<now, upstream, activity, sink, request>>

\* the rejection is caught and the outcome returned all the same
UpsertFailsSwallowed(c) ==
  /\ call[c].pc = "upsert"
  /\ call' = [call EXCEPT ![c].pc = "done", ![c].outcome = SyncOutcome(c)]
  /\ UNCHANGED <<now, upstream, activity, store, documents, sink, audit, request>>

\* the rejection arrives although the write has been applied
UpsertFailsAfterWrite(c) ==
  /\ call[c].pc = "upsert"
  /\ store' = upsert(store, call[c].syncData)
  /\ documents' = Upserted(documents, call[c].username)
  /\ call' = [call EXCEPT ![c] = Thrown(c, "watermark")]
  /\ UNCHANGED <<now, upstream, activity, sink, audit, request>>

\* syncMetadataService.upsert rejects
UpsertFails(c) ==
  /\ call[c].pc = "upsert"
  /\ call' = [call EXCEPT ![c] = Thrown(c, "watermark")]
  /\ UNCHANGED <<now, upstream, activity, store, documents, sink, audit, request>>

\* without the index any insert is admitted
NoIndexAdmits(docs, username) == TRUE

\* SyncMetadataSchema.index({ username: 1, repo: 1 }, { unique: true }):
\* an insert is admitted only while no document holds the key
UniqueIndexAdmits(docs, username) == docs[username] = 0

\* findOneAndUpdate finds no document for { username, repo }: it goes on to
\* insert one, and other operations may run before it does
UpsertMisses(c) ==
  /\ call[c].pc = "upsert"
  /\ documents[call[c].username] = 0
  /\ call' = [call EXCEPT ![c].pc = "insert"]
  /\ UNCHANGED <<now, upstream, activity, store, documents, sink, audit, request>>

\* the insert of the upsert lands; when the index refuses it because another
\* insert came first, the database applies the update to that document instead
UpsertInserts(c) ==
  /\ call[c].pc = "insert"
  /\ store' = upsert(store, call[c].syncData)
  /\ documents' = IF UniqueIndexAdmits(documents, call[c].username)
                  THEN [documents EXCEPT ![call[c].username] = @ + 1]
                  ELSE documents
  /\ call' = [call EXCEPT ![c].pc = "done", ![c].upserts = @ + 1,
                          ![c].outcome = SyncOutcome(c)]
  /\ audit' = IF call[c].branch = "full"
              THEN [audit EXCEPT ![call[c].username].horizon = call[c].sixMonthsAgo,
                                 ![call[c].username].fullTotals = call[c].syncData.totalItems]
              ELSE audit
  /\ UNCHANGED <<now, upstream, activity, sink, request>>

\* ... or the duplicate-key error of the refused insert rejects the upsert
UpsertDuplicateKey(c) ==
  /\ call[c].pc = "insert"
  /\ ~UniqueIndexAdmits(documents, call[c].username)
  /\ call' = [call EXCEPT ![c] = Thrown(c, "watermark")]
  /\ UNCHANGED <<now, upstream, activity, store, documents, sink, audit, request>>

\* the caller has its result (or its error) and the slot is free again
Return(c) ==
  /\ call[c].pc \in {"done", "failed"}
  /\ call[c].pending = {}
  /\ call' = [call EXCEPT ![c] = IdleCall]
  /\ UNCHANGED <<now, upstream, activity, store, documents, sink, audit, request>>

\* ------------------------------------------------------------- environment
\* no watermark has been stamped at instant t: what is created upstream
\* after a stamp carries a later timestamp than the stamp
Unstamped(t) ==
  /\ \A u \in Users : store[u] # NoRecord => store[u].lastSyncDate # t
  /\ \A c \in Calls : call[c].syncData # NoRecord => call[c].syncData.lastSyncDate # t

\* a whole sync interval passes
Elapse ==
  /\ now + incrementalSyncIntervalHours <= EndNow
  /\ now' = now + incrementalSyncIntervalHours
  /\ UNCHANGED <<upstream, activity, store, documents, sink, call, audit, request>>

Push(login) ==
  /\ activity < MaxActivity
  /\ Unstamped(now)
  /\ Len(upstream.commits) < MaxCommits
  /\ upstream' = [upstream EXCEPT !.commits =
       << [oid |-> Len(@) + 1, login |-> login, committedDate |-> now] >> \o @]
  /\ activity' = activity + 1
  /\ audit' = Disturbed
  /\ UNCHANGED <<now, store, documents, sink, call, request>>

OpenThread(kind, login) ==
  /\ activity < MaxActivity
  /\ Unstamped(now)
  /\ Len(upstream[kind]) < (IF kind = "issues" THEN MaxIssues ELSE MaxPRs)
  /\ upstream' = [upstream EXCEPT ![kind] =
       << [number |-> Len(@) + 1, login |-> login, createdAt |-> now,
           comments |-> <<>>] >> \o @]
  /\ activity' = activity + 1
  /\ audit' = Disturbed
  /\ UNCHANGED <<now, store, documents, sink, call, request>>

Comment(kind, i, login) ==
  /\ activity < MaxActivity
  /\ Unstamped(now)
  /\ i \in 1..Len(upstream[kind])
  /\ Len(upstream[kind][i].comments) < MaxComments
  /\ upstream' = [upstream EXCEPT ![kind][i].comments =
       Append(@, [login |-> login, createdAt |-> now])]
  /\ activity' = activity + 1
  /\ audit' = Disturbed
  /\ UNCHANGED <<now, store, documents, sink, call, request>>

\* ------------------------------------------------------------ specification
Init ==
  /\ now = StartNow
  /\ upstream \in {EmptyRepo, LegacyRepo, RecentRepo}
  /\ activity = 0
  /\ store = [u \in Users |-> NoRecord]
  /\ documents = [u \in Users |-> 0]
  /\ sink = NoData
  /\ call = [c \in Calls |-> IdleCall]
  /\ audit = [u \in Users |-> NoAudit]
  /\ request = NoRequest

ThreadKinds == {"pullRequests", "issues"}

\* anybody's activity upstream
Environment ==
  \/ Elapse
  \/ \E login \in Logins : Push(login)
  \/ \E kind \in ThreadKinds, login \in Logins : OpenThread(kind, login)
  \/ \E kind \in ThreadKinds, i \in 1..MaxPRs + MaxIssues, login \in Logins :
       Comment(kind, i, login)

Progress(c) ==
  \/ QueryReturns(c)
  \/ \E why \in {"errors", "notfound", "timeout"} : QueryFails(c, why)
  \/ \E kind \in Kinds : BulkUpsertDone(c, kind)
  \/ \E kind \in Kinds : BulkUpsertFails(c, kind)
  \/ UpsertDone(c)
  \/ UpsertFails(c)
  \/ Return(c)

\* the steps of a call in which nothing fails
Completes(c) ==
  \/ QueryReturns(c)
  \/ \E kind \in Kinds : BulkUpsertDone(c, kind)
  \/ UpsertDone(c)
  \/ Return(c)

\* the keys synced
Synced == {"alice"}

\* the synced user's own activity upstream
OwnActivity ==
  \/ Elapse
  \/ \E u \in Synced : Push(u)
  \/ \E u \in Synced : OpenThread("pullRequests", u)

\* slots are taken in order (which slot a call occupies is immaterial)
Free(c) == \A d \in Calls : d < c => call[d].pc # "idle"

\* The engine as it is: calls on a key overlap freely (no per-key exclusion)
\* and every await may fail.
Next ==
  \/ \E c \in Calls, u \in Synced : Free(c) /\ syncUserRepoActivity(c, u)
  \/ \E c \in Calls, u \in Synced : Free(c) /\ FindFails(c, u)
  \/ \E c \in Calls : Progress(c)
  \/ Environment

Spec == Init /\ [][Next]_vars

\* Single flight: a call starts only when no other call is in progress.
Quiescent == \A c \in Calls : call[c].pc = "idle"

SeqNext ==
  \/ \E u \in Synced : Quiescent /\ syncUserRepoActivity(1, u)
  \/ \E u \in Synced : Quiescent /\ FindFails(1, u)
  \/ Progress(1)
  \/ Environment

SeqSpec == Init /\ [][SeqNext]_vars

\* Overlapping calls on one key, each running to completion.
RaceNext ==
  \/ \E c \in Calls, u \in Synced : Free(c) /\ syncUserRepoActivity(c, u)
  \/ \E c \in Calls : Completes(c)
  \/ OwnActivity

RaceSpec == Init /\ [][RaceNext]_vars

\* ------------------------------------------- items dated around a boundary
BoundaryItems == {"commit", "pullRequest", "prComment", "issue", "issueComment"}

\* one item of every kind, each by any login, each dated just before, exactly
\* at, or just after the mark
BoundaryRepos(mark) ==
  { [commits |-> << [oid |-> 1, login |-> l["commit"], committedDate |-> d["commit"]] >>,
     pullRequests |->
       << [number |-> 1, login |-> l["pullRequest"], createdAt |-> d["pullRequest"],
           comments |-> << [login |-> l["prComment"], createdAt |-> d["prComment"]] >>] >>,
     issues |->
       << [number |-> 1, login |-> l["issue"], createdAt |-> d["issue"],
           comments |-> << [login |-> l["issueComment"],
                            createdAt |-> d["issueComment"]] >>] >>] :
    l \in [BoundaryItems -> Logins],
    d \in [BoundaryItems -> {mark - 1, mark, mark + 1}] }

\* the record a full sync of an empty repository left behind one interval ago
OldRecord ==
  upsert([u \in Users |-> NoRecord],
         Stamp(FullSyncData("alice", FullQuery(EmptyRepo, 0), ZeroTotals),
               StartNow))["alice"]

BoundaryInit ==
  /\ now = StartNow + incrementalSyncIntervalHours
  /\ store \in {[u \in Users |-> NoRecord],
                [u \in Users |-> IF u = "alice" THEN OldRecord ELSE NoRecord]}
  /\ documents = [u \in Users |-> IF store[u] = NoRecord THEN 0 ELSE 1]
  /\ upstream \in BoundaryRepos(IF store["alice"] = NoRecord
                                  THEN analysisStartDate(now)
                                  ELSE OldRecord.lastSyncDate)
  /\ activity = 0
  /\ sink = NoData
  /\ call = [c \in Calls |-> IdleCall]
  /\ audit = [u \in Users |-> NoAudit]
  /\ request = NoRequest

BoundaryNext ==
  \/ Quiescent /\ syncUserRepoActivity(1, "alice")
  \/ Completes(1)

BoundarySpec == BoundaryInit /\ [][BoundaryNext]_vars

\* ------------------------------------------------- the worked example
\* three commits by the user, one pull request by the user carrying two
\* comments by the user, no issues; all inside the analysis window
ScenarioRepo ==
  [commits |-> << [oid |-> 3, login |-> "alice", committedDate |-> 3],
                  [oid |-> 2, login |-> "alice", committedDate |-> 2],
                  [oid |-> 1, login |-> "alice", committedDate |-> 1] >>,
   pullRequests |->
     << [number |-> 1, login |-> "alice", createdAt |-> 2,
         comments |-> << [login |-> "alice", createdAt |-> 2],
                         [login |-> "alice", createdAt |-> 3] >>] >>,
   issues |-> <<>>]

ScenarioTotals ==
  [commits |-> 3, pullRequests |-> 1, issues |-> 0, prComments |-> 2, issueComments |-> 0]

ScenarioInit ==
  /\ now = StartNow
  /\ upstream = ScenarioRepo
  /\ activity = 0
  /\ store = [u \in Users |-> NoRecord]
  /\ documents = [u \in Users |-> 0]
  /\ sink = NoData
  /\ call = [c \in Calls |-> IdleCall]
  /\ audit = [u \in Users |-> NoAudit]
  /\ request = NoRequest

ScenarioNext ==
  \/ Quiescent /\ syncUserRepoActivity(1, "alice")
  \/ Quiescent /\ FindFails(1, "alice")
  \/ Progress(1)
  \/ Elapse
  \/ \E login \in Logins : Push(login)

ScenarioSpec == ScenarioInit /\ [][ScenarioNext]_vars

\* ------------------------------------------------ overlapping calls, any key
\* Calls for either user overlap freely, every await may fail, and an upsert
\* that matches no document inserts in a separate step.
KeysNext ==
  \/ \E c \in Calls, u \in Users : Free(c) /\ syncUserRepoActivity(c, u)
  \/ \E c \in Calls, u \in Users : Free(c) /\ FindFails(c, u)
  \/ \E c \in Calls : QueryReturns(c)
  \/ \E c \in Calls : QueryFails(c, "errors")
  \/ \E c \in Calls, kind \in Kinds : BulkUpsertDone(c, kind)
  \/ \E c \in Calls, kind \in Kinds : BulkUpsertFails(c, kind)
  \/ \E c \in Calls : /\ call[c].pc = "upsert"
                       /\ documents[call[c].username] > 0
                       /\ UpsertDone(c)
  \/ \E c \in Calls : UpsertMisses(c)
  \/ \E c \in Calls : UpsertInserts(c)
  \/ \E c \in Calls : UpsertDuplicateKey(c)
  \/ \E c \in Calls : UpsertFails(c)
  \/ \E c \in Calls : Return(c)

KeysSpec == Init /\ [][KeysNext]_vars

\* ------------------------------------------ a sync after a lost watermark
\* Slot 2 runs syncs that succeed, one at a time. Slot 1 runs one sync whose
\* sink writes succeed and whose watermark upsert is rejected; its locals are
\* kept as they were when it threw, and the next sync of slot 2 is kept as it
\* was when it returned.
RecoveryNext ==
  \/ /\ call[1].pc = "idle" /\ call[2].pc = "idle"
     /\ syncUserRepoActivity(1, "alice")
  \/ QueryReturns(1)
  \/ \E kind \in Kinds : BulkUpsertDone(1, kind)
  \/ UpsertFails(1)
  \/ call[1].pc = "done" /\ Return(1)
  \/ /\ call[1].pc \in {"idle", "failed"} /\ call[2].pc = "idle"
     /\ syncUserRepoActivity(2, "alice")
  \/ QueryReturns(2)
  \/ \E kind \in Kinds : BulkUpsertDone(2, kind)
  \/ UpsertDone(2)
  \/ call[1].pc = "idle" /\ Return(2)
  \/ OwnActivity

RecoverySpec == Init /\ [][RecoveryNext]_vars

\* ------------------------------------------- direct store-service requests
\* what is kept of a request: its arguments, the collection before and
\* after it, and how many requests have been made
Requested(op, username, date, delta, syncData, after) ==
  [op |-> op, username |-> username, date |-> date, delta |-> delta,
   syncData |-> syncData, n |-> request.n + 1, before |-> store, after |-> after]

\* the documents left per username once the collection is st
Held(st) == [u \in Users |-> IF st[u] = NoRecord THEN 0 ELSE documents[u]]

\* the increments asked for
Deltas ==
  {[commits |-> 1, pullRequests |-> 0, issues |-> 2, prComments |-> 0, issueComments |-> 1],
   [commits |-> 0, pullRequests |-> 3, issues |-> 1, prComments |-> 1, issueComments |-> 0]}

\* the fields of a record other than its key and its timestamps
Fields == {"lastSyncDate", "lastCommitSha", "lastPRNumber", "lastIssueNumber", "totalItems"}

\* values unlike any the engine writes for the repositories synced
Supplied(t) ==
  [lastSyncDate |-> t - 1, lastCommitSha |-> 9, lastPRNumber |-> 7,
   lastIssueNumber |-> 8, totalItems |-> ScenarioTotals]

\* the Partial<SyncMetadata> argument naming the fields F
PartialSyncData(username, F, t) ==
  [f \in F \cup {"username", "fetchedAt"} |->
     IF f = "username" THEN username
     ELSE IF f = "fetchedAt" THEN t ELSE Supplied(t)[f]]

\* the dates cleanup is asked about
Thresholds == {StartNow, StartNow + 1, StartNow + incrementalSyncIntervalHours}

\* no direct request while a sync is in progress, and boundedly many
MayRequest == Quiescent /\ request.n < MaxRequests

IncrementTotalItems(u, d) ==
  /\ MayRequest
  /\ store' = incrementTotalItems(store, u, d, now)
  /\ request' = Requested("increment", u, now, d, NoRecord, store')
  /\ UNCHANGED <<now, upstream, activity, documents, sink, call, audit>>

\* the fields a Partial<SyncMetadata> argument names
Named(syncData) == (DOMAIN syncData) \ {"username", "fetchedAt"}

\* lastSyncDate is required by the schema: a caller creating a record names
\* it; a caller that has made an upsert makes the same one again, or none
Upsert(u, F) ==
  /\ MayRequest
  /\ store[u] = NoRecord => "lastSyncDate" \in F
  /\ request.op = "upsert" => request.username = u /\ Named(request.syncData) = F
  /\ store' = upsert(store, PartialSyncData(u, F, now))
  /\ documents' = Upserted(documents, u)
  /\ request' = Requested("upsert", u, now, ZeroTotals, PartialSyncData(u, F, now), store')
  /\ UNCHANGED <<now, upstream, activity, sink, call, audit>>

DeleteByUsernameAndRepo(u) ==
  /\ MayRequest
  /\ store' = deleteByUsernameAndRepo(store, u)
  /\ documents' = Held(store')
  /\ request' = Requested("delete", u, now, ZeroTotals, NoRecord, store')
  /\ UNCHANGED <<now, upstream, activity, sink, call, audit>>

Cleanup(olderThan) ==
  /\ MayRequest
  /\ store' = cleanup(store, olderThan)
  /\ documents' = Held(store')
  /\ request' = Requested("cleanup", NoLogin, olderThan, ZeroTotals, NoRecord, store')
  /\ UNCHANGED <<now, upstream, activity, sink, call, audit>>

\* one repository, nothing synced yet
StoreInit ==
  /\ Init
  /\ upstream = RecentRepo

\* syncs of either key one at a time in which nothing fails, and time passing
\* between them
Syncs ==
  \/ \E u \in Users : Quiescent /\ syncUserRepoActivity(1, u)
  \/ Completes(1)
  \/ Quiescent /\ Elapse

\* increments between the syncs
IncrementNext ==
  \/ Syncs
  \/ \E u \in Users, d \in Deltas : IncrementTotalItems(u, d)

IncrementSpec == StoreInit /\ [][IncrementNext]_vars

\* upserts of any subset of the fields between the syncs
UpsertNext ==
  \/ Syncs
  \/ \E u \in Users, F \in SUBSET Fields : Upsert(u, F)

UpsertSpec == StoreInit /\ [][UpsertNext]_vars

\* deletions between the syncs
DeletionNext ==
  \/ Syncs
  \/ \E u \in Users : DeleteByUsernameAndRepo(u)
  \/ \E t \in Thresholds : Cleanup(t)

DeletionSpec == StoreInit /\ [][DeletionNext]_vars

\* ------------------------------------------------ records of every age
\* the record a full sync of the repository wrote for alice at instant t
FullRecord(up, t) ==
  LET repository == FullQuery(up, analysisStartDate(t))
      data == processAndCacheFullData("alice", repository, analysisStartDate(t))
  IN upsert([u \in Users |-> NoRecord],
            Stamp(FullSyncData("alice", repository, Counts(data)), t))["alice"]

\* the instants looked at: up to one sync interval past the full-sync interval
Instants == StartNow .. (StartNow + fullSyncIntervalHours + incrementalSyncIntervalHours)

\* alice's key has never been synced, or was synced in full at some earlier
\* instant; the call is made at any later hour
AgedInit ==
  /\ now \in Instants
  /\ upstream \in {EmptyRepo, LegacyRepo, RecentRepo}
  /\ activity = 0
  /\ store \in {[u \in Users |-> NoRecord]} \cup
               {[u \in Users |-> IF u = "alice" THEN FullRecord(upstream, t) ELSE NoRecord] :
                  t \in {i \in Instants : i <= now}}
  /\ documents = [u \in Users |-> IF store[u] = NoRecord THEN 0 ELSE 1]
  /\ sink = NoData
  /\ call = [c \in Calls |-> IdleCall]
  /\ audit = [u \in Users |-> NoAudit]
  /\ request = NoRequest

AgedNext ==
  \/ \E u \in Users : Quiescent /\ syncUserRepoActivity(1, u)
  \/ \E u \in Users : Quiescent /\ FindFails(1, u)
  \/ Progress(1)

AgedSpec == AgedInit /\ [][AgedNext]_vars

\* ------------------------------------------ markers, authors and dates
\* the lastSyncDate of the stored records: one sync interval before the call
MarkDate == StartNow

\* two commits, two pull requests (the newer one commented on) and one issue;
\* authors are the user, someone else, or missing; dates are exactly at the
\* stored lastSyncDate or just after it
MarkerRepos ==
  { [commits |-> << [oid |-> 2, login |-> l2, committedDate |-> d2],
                    [oid |-> 1, login |-> l1, committedDate |-> d1] >>,
     pullRequests |->
       << [number |-> 2, login |-> p2, createdAt |-> e2,
           comments |-> << [login |-> m, createdAt |-> dm] >>],
          [number |-> 1, login |-> "alice", createdAt |-> e1, comments |-> <<>>] >>,
     issues |->
       << [number |-> 1, login |-> i1, createdAt |-> MarkDate + 1,
           comments |-> <<>>] >>] :
    l2 \in Users, l1 \in Users \cup {NoLogin}, p2 \in Users, i1 \in Users,
    m \in {"alice", NoLogin},
    d2 \in {MarkDate, MarkDate + 1}, d1 \in {MarkDate, MarkDate + 1},
    e2 \in {MarkDate, MarkDate + 1}, e1 \in {MarkDate, MarkDate + 1},
    dm \in {MarkDate, MarkDate + 1} }

\* stored records: the commit marker absent, the older or the newer commit;
\* the number markers absent, a maximum over nothing, or 1
MarkerRecords ==
  { [username |-> "alice", lastSyncDate |-> MarkDate,
     lastCommitSha |-> sha, lastPRNumber |-> n, lastIssueNumber |-> n,
     totalItems |-> ScenarioTotals, fetchedAt |-> MarkDate,
     createdAt |-> MarkDate, updatedAt |-> MarkDate] :
    sha \in {Undefined, 1, 2}, n \in {Undefined, NegInfinity, 1} }

MarkerInit ==
  /\ now = MarkDate + incrementalSyncIntervalHours
  /\ upstream \in MarkerRepos
  /\ activity = 0
  /\ store \in {[u \in Users |-> NoRecord]} \cup
               {[u \in Users |-> IF u = "alice" THEN r ELSE NoRecord] :
                  r \in MarkerRecords}
  /\ documents = [u \in Users |-> IF store[u] = NoRecord THEN 0 ELSE 1]
  /\ sink = NoData
  /\ call = [c \in Calls |-> IdleCall]
  /\ audit = [u \in Users |-> NoAudit]
  /\ request = NoRequest

MarkerNext ==
  \/ Quiescent /\ syncUserRepoActivity(1, "alice")
  \/ Completes(1)

MarkerSpec == MarkerInit /\ [][MarkerNext]_vars

\* ------------------------------------------------------------------ claims
Key(c) == call[c].username

GE(a, b) == \A k \in TotalKeys : a[k] >= b[k]

\* the bulk upserts call c started
Started(c) == {k \in Kinds : call[c].keys[k] # {}}

\* call c returned a value from the full or the incremental branch
HasSynced(c) == call[c].pc = "done" /\ call[c].branch \in {"full", "incremental"}

\* C1: a call that finds a watermark younger than the incremental interval
\* returns at once with the stored totals, isIncremental = false and
\* itemsFetched = 0, sends no query and writes neither the sink nor the store.
C1_FreshnessShortCircuit ==
  [][\A c \in Calls :
       ( /\ call[c].pc = "idle" /\ call'[c].pc # "idle"
         /\ call'[c].error = "none"
         /\ store[call'[c].username] # NoRecord
         /\ now - store[call'[c].username].lastSyncDate < incrementalSyncIntervalHours )
       => /\ call'[c].pc = "done"
          /\ TotalsOf(call'[c].outcome) = store[call'[c].username].totalItems
          /\ call'[c].outcome.isIncremental = FALSE
          /\ call'[c].outcome.itemsFetched = 0
          /\ call'[c].queries = 0
          /\ call'[c].pending = {} /\ call'[c].sinkWrites = 0 /\ call'[c].upserts = 0
          /\ store' = store /\ sink' = sink]_vars

C1_Witness ==
  \E c \in Calls :
    /\ call[c].pc = "done" /\ call[c].branch = "cache"
    /\ call[c].outcome.commits > 0
    /\ call[c].outcome.commits < AuthoredTotals(upstream, Key(c), 0).commits

\* C2: a call that finds no watermark and whose query and writes succeed ran a
\* full sync from the analysis horizon, created the watermark with the totals
\* of what the user authored in the window, and returned them, isIncremental = false.
C2_FirstTimeSync ==
  \A c \in Calls :
    (call[c].pc = "done" /\ call[c].lastSync = NoRecord)
    => /\ call[c].branch = "full"
       /\ call[c].since = call[c].began - analysisWindowHours
       /\ call[c].queries = 1
       /\ store[Key(c)] # NoRecord
       /\ store[Key(c)].totalItems = call[c].authored
       /\ TotalsOf(call[c].outcome) = call[c].authored
       /\ call[c].outcome.isIncremental = FALSE

C2_Witness ==
  \E c \in Calls :
    /\ call[c].pc = "done" /\ call[c].lastSync = NoRecord
    /\ call[c].outcome.commits > 0 /\ call[c].outcome.prComments > 0
    /\ call[c].authored # AuthoredTotals(upstream, Key(c), 0)

C4_UpstreamFailureUntouched ==
  \A c \in Calls :
    (call[c].pc = "failed" /\ call[c].error \in {"errors", "notfound"})
    => /\ call[c].outcome = NoOutcome
       /\ Started(c) = {} /\ call[c].pending = {}
       /\ call[c].sinkWrites = 0 /\ call[c].upserts = 0
       /\ store[Key(c)] = call[c].lastSync

C4_Witness ==
  \E c \in Calls :
    /\ call[c].pc = "failed" /\ call[c].error = "notfound"
    /\ call[c].branch = "incremental"
    /\ activity > 0

\* C5: the watermark upsert is called only once every bulk upsert the call
\* started has succeeded; a call that failed made no watermark upsert.
C5_WatermarkWriteLast ==
  \A c \in Calls :
    /\ (call[c].pc \in {"upsert", "done"} /\ call[c].branch # "cache")
       => /\ call[c].pending = {}
          /\ call[c].sinkWrites = Cardinality(Started(c))
          /\ \A k \in Started(c) : call[c].keys[k] \subseteq sink[k]
    /\ call[c].pc = "failed" => call[c].upserts = 0
    /\ call[c].upserts > 0 => call[c].pc = "done"
    /\ call[c].upserts <= 1

C5_Witness ==
  \E c \in Calls :
    /\ call[c].pc = "failed" /\ call[c].error = "sink"
    /\ call[c].sinkWrites > 0
    /\ store[Key(c)] = call[c].lastSync

\* C6: with calls one at a time, no step lowers any of a key's five stored
\* totals or removes its record, and stored totals are never negative.
C6_MonotoneSequential ==
  [][\A u \in Users :
       /\ store[u] # NoRecord
          => store'[u] # NoRecord /\ GE(store'[u].totalItems, store[u].totalItems)
       /\ store'[u] # NoRecord => GE(store'[u].totalItems, ZeroTotals)]_vars

C6_Witness ==
  \E c \in Calls :
    /\ call[c].pc = "done" /\ call[c].branch = "incremental"
    /\ SumValues(store[Key(c)].totalItems) > SumValues(call[c].lastSync.totalItems)
    /\ SumValues(call[c].lastSync.totalItems) > 0

\* C7: with calls on a key overlapping, no watermark write lowers any of the
\* key's five stored totals.
C7_MonotoneConcurrent ==
  [][\A u \in Users :
       (store[u] # NoRecord /\ store'[u] # store[u])
       => GE(store'[u].totalItems, store[u].totalItems)]_vars

\* two calls on one key that read the same stale watermark and found the same
\* new items have both returned
RaceCase(c, d) ==
  /\ c # d
  /\ call[c].pc = "done" /\ call[d].pc = "done"
  /\ call[c].branch = "incremental" /\ call[d].branch = "incremental"
  /\ Key(c) = Key(d)
  /\ call[c].lastSync = call[d].lastSync
  /\ call[c].keys = call[d].keys /\ call[c].results = call[d].results
  /\ SumValues(call[c].results) > 0

\* C8 as claimed: after two calls raced on the same stale watermark and the
\* same new items, some stored total counts the new items twice.
C8_RaceDoubleCounts ==
  \A c, d \in Calls :
    RaceCase(c, d)
    => \E k \in TotalKeys :
         store[Key(c)].totalItems[k] > call[c].lastSync.totalItems[k] + call[c].results[k]

\* C8 as amended: after two calls raced on the same stale watermark and the
\* same new items, every stored total is the prior total plus the new items
\* counted once (each call sets prior + its own delta; the later write wins).
C8_RaceLastWriterWins ==
  \A c, d \in Calls :
    RaceCase(c, d)
    => store[Key(c)].totalItems = Add(call[c].lastSync.totalItems, call[c].results)

C8_Witness == \E c, d \in Calls : RaceCase(c, d) /\ call[c].began = call[d].began

C10_TotalsAreCumulativeAuthoredCount ==
  \A c \in Calls :
    HasSynced(c) => store[Key(c)].totalItems = call[c].authored

\* what username authored at exactly the instant t, per kind
AuthoredAt(up, username, t) ==
  [k \in TotalKeys |->
     AuthoredTotals(up, username, t)[k] - AuthoredTotals(up, username, t + 1)[k]]

\* C11: whatever the kind of item, a full sync counts the user's items dated
\* exactly at the six-month horizon, and an incremental sync counts none of the
\* user's items dated exactly at the previous lastSyncDate: its per-kind counts
\* plus the items at the watermark make up everything dated from the
\* watermark on.
C11_BoundaryTimestamps ==
  \A c \in Calls :
    call[c].pc \in {"sink", "upsert", "done"} =>
      /\ call[c].branch = "full" =>
           call[c].results = AuthoredTotals(upstream, Key(c), call[c].sixMonthsAgo)
      /\ call[c].branch = "incremental" =>
           Add(call[c].results,
               AuthoredAt(upstream, Key(c), call[c].lastSync.lastSyncDate))
             = AuthoredTotals(upstream, Key(c), call[c].lastSync.lastSyncDate)

\* an incremental sync done over a repository where the user has an item of
\* every kind dated exactly at the watermark, and counted none of them
C11_Witness ==
  \E c \in Calls :
    /\ call[c].pc = "done"
    /\ call[c].branch = "incremental"
    /\ \A k \in TotalKeys :
         AuthoredAt(upstream, Key(c), call[c].lastSync.lastSyncDate)[k] = 1
    /\ call[c].results = ZeroTotals

\* C12: a full sync whose fetch returned no pull requests (no issues) writes a
\* watermark whose lastPRNumber (lastIssueNumber) is the "none seen" sentinel
\* 0, not a maximum over an empty set, and the call does not fail for it.
\* Threads are never removed upstream, so none now means none at the fetch.
C12_EmptyWindowSentinel ==
  \A c \in Calls :
    (call[c].branch = "full" /\ call[c].pc \in {"upsert", "done"}) =>
      /\ upstream.pullRequests = <<>> => call[c].syncData.lastPRNumber = 0
      /\ upstream.issues = <<>> => call[c].syncData.lastIssueNumber = 0
      /\ (call[c].pc = "done" /\ upstream.pullRequests = <<>>) =>
           store[Key(c)].lastPRNumber = 0

\* the call synced the worked example in full: no watermark before, and the
\* fetch saw exactly the user's 3 commits and 1 pull request with 2 comments
ScenarioFullSync(c) ==
  /\ call[c].pc = "done"
  /\ call[c].branch = "full"
  /\ call[c].authored = ScenarioTotals
  /\ store[Key(c)].lastSyncDate = call[c].syncData.lastSyncDate

\* C13 as stated: the first call on the worked example returns
\* commits=3, pullRequests=1, issues=0, prComments=2, issueComments=0,
\* isIncremental=false and itemsFetched=4, and creates the watermark with
\* those totals.
C13_ItemsFetchedIsFour ==
  \A c \in Calls :
    ScenarioFullSync(c) =>
      /\ call[c].outcome = Outcome(ScenarioTotals, FALSE, 4)
      /\ store[Key(c)].totalItems = ScenarioTotals

\* C13, amended: the same call returns those totals with itemsFetched=6, the
\* sum of the five per-kind counts (3 commits + 1 pull request + 2 comments),
\* and creates the watermark with those totals.
C13_ItemsFetchedIsSumOfCounts ==
  \A c \in Calls :
    ScenarioFullSync(c) =>
      /\ call[c].outcome = Outcome(ScenarioTotals, FALSE, 6)
      /\ store[Key(c)].totalItems = ScenarioTotals

\* the first call on the worked example has returned, with itemsFetched=6
C13_Witness ==
  \E c \in Calls :
    /\ ScenarioFullSync(c)
    /\ call[c].lastSync = NoRecord
    /\ call[c].outcome.itemsFetched = 6
    /\ sink.commits = {1, 2, 3}

\* C14: after a full sync stored the worked example's totals, a call made once
\* the interval has expired, with exactly one more commit by the user upstream
\* and nothing else new, returns commits=4, pullRequests=1, issues=0,
\* prComments=2, issueComments=0, isIncremental=true, itemsFetched=1 and
\* stores those totals.
C14_IncrementalDelta ==
  \A c \in Calls :
    ( /\ call[c].pc = "done"
      /\ call[c].branch = "incremental"
      /\ call[c].lastSync.totalItems = ScenarioTotals
      /\ call[c].authored = [ScenarioTotals EXCEPT !.commits = 4]
      /\ Len(upstream.commits) = 4 )
    => /\ call[c].outcome = Outcome([ScenarioTotals EXCEPT !.commits = 4], TRUE, 1)
       /\ store[Key(c)].totalItems = [ScenarioTotals EXCEPT !.commits = 4]

\* the earliest date the mode of the call counts
TimeBound(c) ==
  IF call[c].branch = "full" THEN call[c].sixMonthsAgo
  ELSE call[c].lastSync.lastSyncDate + 1

\* C15: in both modes, when the query of a call returns, the prComments
\* (issueComments) it counts is the number of comments by username that meet
\* the mode's time bound over every pull request (issue) the fetch returned,
\* whoever opened it and whatever its number.
C15_CommentsSpanRawSet ==
  [][ \A c \in Calls :
        (call[c].pc = "fetch" /\ call'[c].pc \in {"sink", "upsert"}) =>
          LET all == AuthoredTotals(upstream, Key(c), TimeBound(c))
          IN /\ call'[c].results.prComments = all.prComments
             /\ call'[c].results.issueComments = all.issueComments ]_vars

\* C16: the sync-metadata collection never holds two documents for one
\* (username, repo), also after two overlapping first-time syncs of the key
\* that both found no record.
C16_KeyUniqueness ==
  \A u \in Users : documents[u] <= 1

\* two overlapping first-time syncs of one key both read no record, both
\* found no document to update, and both upserts took effect on one document
C16_Witness ==
  \E c, d \in Calls :
    /\ c # d
    /\ Key(c) = Key(d)
    /\ call[c].pc = "done" /\ call[d].pc = "done"
    /\ call[c].lastSync = NoRecord /\ call[d].lastSync = NoRecord
    /\ call[c].upserts = 1 /\ call[d].upserts = 1
    /\ call[c].began = call[d].began
    /\ documents[Key(c)] = 1

\* C17: a step of a syncUserRepoActivity call for one key, whether the call
\* succeeds or fails and whatever other calls are in progress, leaves the
\* watermark record of every other key as it was: not created, not changed,
\* not deleted. Nothing but a call's step touches the records.
C17_KeyIndependence ==
  [][ /\ \A c \in Calls :
           call'[c] # call[c] =>
             \A u \in Users \ {call[c].username, call'[c].username} :
               store'[u] = store[u] /\ documents'[u] = documents[u]
      /\ (store' # store \/ documents' # documents) =>
           \E c \in Calls : call'[c] # call[c] ]_vars

\* a call for alice wrote alice's record while an overlapping call for bob
\* failed, and bob's key still has no record
C17_Witness ==
  \E c, d \in Calls :
    /\ Key(c) = "alice" /\ Key(d) = "bob"
    /\ call[c].pc = "done" /\ call[c].upserts = 1
    /\ call[d].pc = "failed"
    /\ call[c].began = call[d].began
    /\ store["alice"] # NoRecord /\ documents["alice"] = 1
    /\ store["bob"] = NoRecord /\ documents["bob"] = 0

\* the sync of slot 1 threw at its watermark upsert
WatermarkLost == call[1].pc = "failed" /\ call[1].error = "watermark"

\* C18: when the watermark upsert of a sync is rejected after its sink writes
\* succeeded, the call fails without an outcome, the items it sent are in the
\* sink, and the stored watermark is the record the call read; the next sync
\* of the key reads that same record, takes the same branch, counts again the
\* items the failed call had sent, and stores the totals that follow from the
\* record and its own fetch alone.
C18_WatermarkWriteFailureRecoverable ==
  LET F == call[1]
      N == call[2]
  IN WatermarkLost =>
       /\ F.outcome = NoOutcome /\ F.upserts = 0
       /\ F.pending = {} /\ \A k \in Kinds : F.keys[k] \subseteq sink[k]
       /\ N.pc # "done" =>
            /\ store[Key(1)] = F.lastSync
            /\ documents[Key(1)] = IF F.lastSync = NoRecord THEN 0 ELSE 1
       /\ N.pc # "idle" =>
            /\ N.lastSync = F.lastSync
            /\ N.branch = F.branch
       /\ N.pc = "done" =>
            /\ TotalsOf(N.outcome) = store[Key(2)].totalItems
            /\ N.branch = "full" =>
                 store[Key(2)].totalItems = N.authored
            /\ N.branch = "incremental" =>
                 /\ store[Key(2)].totalItems = Add(F.lastSync.totalItems, N.results)
                 /\ GE(N.results, F.results)
                 /\ \A k \in Kinds : F.keys[k] \subseteq N.keys[k]
            /\ \A k \in Kinds : N.keys[k] \subseteq sink[k]

\* an incremental sync sent a new commit to the sink and lost its watermark
\* write; the next sync sent the same commit again and stored it in the totals
C18_Witness ==
  /\ WatermarkLost
  /\ call[1].branch = "incremental"
  /\ call[1].keys.commits # {}
  /\ call[2].pc = "done"
  /\ call[1].keys.commits \subseteq call[2].keys.commits
  /\ store["alice"].totalItems.commits =
       call[1].lastSync.totalItems.commits + Cardinality(call[1].keys.commits)

C20_FailuresNeverSwallowed ==
  [][ \A c \in Calls :
        /\ call[c].pc = "failed" =>
             /\ call[c].outcome = NoOutcome /\ call[c].error # "none"
             /\ call'[c].pc \in {"failed", "idle"}
        /\ call'[c].pc = "done" =>
             /\ call'[c].error = "none" /\ call'[c].outcome # NoOutcome
             /\ call'[c].branch = "cache" =>
                  /\ call'[c].lastSync # NoRecord
                  /\ TotalsOf(call'[c].outcome) = call'[c].lastSync.totalItems
             /\ call'[c].branch # "cache" =>
                  /\ call'[c].queries = 1 /\ call'[c].upserts = 1
                  /\ call'[c].pending = {}
                  /\ \A k \in Kinds : call'[c].keys[k] \subseteq sink'[k]
                  /\ store'[call'[c].username] # NoRecord
                  /\ store'[call'[c].username].lastSyncDate
                       = call'[c].syncData.lastSyncDate
                  /\ store'[call'[c].username].totalItems
                       = TotalsOf(call'[c].outcome) ]_vars

\* the watermark write of a sync was rejected after its sink writes went
\* through: the call has failed and holds no outcome
C20_Witness ==
  \E c \in Calls :
    /\ call[c].pc = "failed" /\ call[c].error = "watermark"
    /\ call[c].outcome = NoOutcome
    /\ call[c].sinkWrites > 0
    /\ call[c].branch = "full"

\* C21: a call for a key whose record is older than the full-sync interval
\* performs a full sync from the analysis horizon, not an incremental sync.
C21_PeriodicCompleteRefresh ==
  \A c \in Calls :
    ( /\ call[c].pc # "idle"
      /\ call[c].lastSync # NoRecord
      /\ call[c].lastSync.lastSyncDate < fullSyncExpiryDate(call[c].began) )
    => /\ call[c].branch = "full"
       /\ call[c].since = analysisStartDate(call[c].began)

C23_IncrementalFetchBound ==
  \A c \in Calls :
    (call[c].branch = "incremental" /\ call[c].queries > 0) =>
      \A k \in Kinds : IncrementalFirst[k] <= maxIncrementalItems

\* the stored marker, an absent one read as 0
Marker(n) == IF n = Undefined THEN 0 ELSE n

\* the commits of the repository that are new to the record: by the user,
\* dated strictly after lastSyncDate, and other than the stored lastCommitSha
FreshCommits(up, username, lastSync) ==
  {up.commits[i].oid : i \in
     {j \in 1..Len(up.commits) :
        /\ up.commits[j].login = username
        /\ up.commits[j].committedDate > lastSync.lastSyncDate
        /\ (lastSync.lastCommitSha = Undefined
              \/ up.commits[j].oid # lastSync.lastCommitSha)}}

\* C24: the commits an incremental sync counts and sends to the sink are
\* exactly the fetched commits that are by username, dated strictly after the
\* stored lastSyncDate, and different from the stored lastCommitSha (every
\* commit being different when none is stored).
C24_CommitNewness ==
  \A c \in Calls :
    (call[c].branch = "incremental" /\ call[c].pc \in {"sink", "upsert", "done"}) =>
      /\ call[c].keys.commits = FreshCommits(upstream, Key(c), call[c].lastSync)
      /\ call[c].results.commits = Cardinality(call[c].keys.commits)
      /\ call[c].pc = "done" => sink.commits = call[c].keys.commits

\* an incremental sync left out the user's newest commit only because it is
\* the stored marker, left out the older one only because of its date or
\* author, and so counted none
C24_Witness ==
  \E c \in Calls :
    /\ call[c].pc = "done" /\ call[c].branch = "incremental"
    /\ call[c].lastSync.lastCommitSha = 2
    /\ upstream.commits[1].login = "alice"
    /\ upstream.commits[1].committedDate > call[c].lastSync.lastSyncDate
    /\ call[c].results.commits = 0
    /\ sink.commits = {}

\* the pull requests (issues) that are new to the record: numbered above the
\* stored marker, by the user, and created strictly after lastSyncDate
FreshThreads(threads, username, lastSyncDate, marker) ==
  {threads[i].number : i \in
     {j \in 1..Len(threads) :
        /\ threads[j].number > Marker(marker)
        /\ threads[j].login = username
        /\ threads[j].createdAt > lastSyncDate}}

\* C25: the pull requests (issues) an incremental sync counts and sends to
\* the sink are exactly the fetched ones whose number is above the stored
\* lastPRNumber (lastIssueNumber; an absent marker read as 0), that are by
\* username, and whose createdAt is strictly after the stored lastSyncDate.
C25_ThreadNewness ==
  \A c \in Calls :
    (call[c].branch = "incremental" /\ call[c].pc \in {"sink", "upsert", "done"}) =>
      LET lastSync == call[c].lastSync IN
      /\ call[c].keys.pullRequests =
           FreshThreads(upstream.pullRequests, Key(c), lastSync.lastSyncDate,
                        lastSync.lastPRNumber)
      /\ call[c].keys.issues =
           FreshThreads(upstream.issues, Key(c), lastSync.lastSyncDate,
                        lastSync.lastIssueNumber)
      /\ call[c].results.pullRequests = Cardinality(call[c].keys.pullRequests)
      /\ call[c].results.issues = Cardinality(call[c].keys.issues)

\* the user has two pull requests created after the watermark; the stored
\* marker is 1, so the incremental sync counted only number 2, and it left
\* out the user's issue number 1 as well
C25_Witness ==
  \E c \in Calls :
    /\ call[c].pc = "done" /\ call[c].branch = "incremental"
    /\ call[c].lastSync.lastPRNumber = 1
    /\ \A i \in 1..2 :
         /\ upstream.pullRequests[i].login = "alice"
         /\ upstream.pullRequests[i].createdAt > call[c].lastSync.lastSyncDate
    /\ upstream.issues[1].login = "alice"
    /\ call[c].keys.pullRequests = {2}
    /\ call[c].results.issues = 0

\* the greatest element of a non-empty set of numbers
Greatest(S) == CHOOSE m \in S : \A x \in S : m >= x

\* the marker an incremental sync is to store: the greatest of the stored one
\* (absent read as 0) and the fetched numbers above it
AdvancedNumber(threads, marker) ==
  Greatest({Marker(marker)} \cup
           {threads[i].number : i \in {j \in 1..Len(threads) :
                                         threads[j].number > Marker(marker)}})

\* the commit marker an incremental sync is to store: the newest fetched
\* commit other than the stored marker, else the stored marker
AdvancedSha(commits, lastSync) ==
  LET distinct == {j \in 1..Len(commits) :
                     /\ commits[j].committedDate >= lastSync.lastSyncDate
                     /\ (lastSync.lastCommitSha = Undefined
                           \/ commits[j].oid # lastSync.lastCommitSha)}
  IN IF distinct = {} THEN lastSync.lastCommitSha
     ELSE commits[CHOOSE j \in distinct : \A k \in distinct : j <= k].oid

\* C26: after a successful incremental sync the stored lastPRNumber is the
\* greatest of the previous lastPRNumber and the numbers of all fetched pull
\* requests above it (likewise lastIssueNumber), lastCommitSha is the newest
\* fetched commit other than the previous marker, or the previous marker when
\* there is none, and neither number marker is below its previous value.
C26_MarkerAdvancement ==
  \A c \in Calls :
    (call[c].pc = "done" /\ call[c].branch = "incremental") =>
      LET lastSync == call[c].lastSync
          record == store[Key(c)]
      IN /\ record.lastPRNumber =
              AdvancedNumber(upstream.pullRequests, lastSync.lastPRNumber)
         /\ record.lastIssueNumber =
              AdvancedNumber(upstream.issues, lastSync.lastIssueNumber)
         /\ record.lastCommitSha = AdvancedSha(upstream.commits, lastSync)
         /\ record.lastPRNumber >= Marker(lastSync.lastPRNumber)
         /\ record.lastIssueNumber >= Marker(lastSync.lastIssueNumber)

\* an incremental sync found no issue above the stored marker 1 and kept it,
\* advanced lastPRNumber from 1 to 2 on someone else's pull request, and
\* moved lastCommitSha from the newest commit to the older one
C26_Witness ==
  \E c \in Calls :
    /\ call[c].pc = "done" /\ call[c].branch = "incremental"
    /\ call[c].lastSync.lastPRNumber = 1 /\ call[c].lastSync.lastCommitSha = 2
    /\ upstream.pullRequests[1].login = "bob"
    /\ store[Key(c)].lastPRNumber = 2
    /\ store[Key(c)].lastIssueNumber = 1
    /\ store[Key(c)].lastCommitSha = 1

\* the identifiers of the user's own items of a kind that meet a time bound
OwnKeys(up, username, bound) ==
  [commits |-> {up.commits[i].oid : i \in
                  {j \in 1..Len(up.commits) :
                     up.commits[j].login = username
                       /\ up.commits[j].committedDate >= bound}},
   pullRequests |-> {up.pullRequests[i].number : i \in
                  {j \in 1..Len(up.pullRequests) :
                     up.pullRequests[j].login = username
                       /\ up.pullRequests[j].createdAt >= bound}},
   issues |-> {up.issues[i].number : i \in
                  {j \in 1..Len(up.issues) :
                     up.issues[j].login = username
                       /\ up.issues[j].createdAt >= bound}}]

\* C27: in a full and in an incremental sync, every commit, pull request and
\* issue sent to the sink is one of username's own that meets the mode's time
\* bound, and no count exceeds the number of username's own items and
\* comments meeting it: items by someone else or without an author add
\* nothing to any total.
C27_AuthorshipFilter ==
  \A c \in Calls :
    (call[c].branch \in {"full", "incremental"}
       /\ call[c].pc \in {"sink", "upsert", "done"}) =>
      LET own == AuthoredTotals(upstream, Key(c), TimeBound(c))
          prior == IF call[c].branch = "full" THEN ZeroTotals
                   ELSE call[c].lastSync.totalItems
      IN /\ \A k \in Kinds :
              call[c].keys[k] \subseteq OwnKeys(upstream, Key(c), TimeBound(c))[k]
         /\ GE(own, call[c].results)
         /\ call[c].pc = "done" =>
              /\ GE(Add(prior, own), store[Key(c)].totalItems)
              /\ \A k \in Kinds :
                   sink[k] \subseteq OwnKeys(upstream, Key(c), TimeBound(c))[k]

\* a full sync over a repository whose commits are someone else's and
\* unauthored, with an unauthored comment and someone else's issue: it
\* counted and sent none of them
C27_Witness ==
  \E c \in Calls :
    /\ call[c].pc = "done" /\ call[c].branch = "full"
    /\ upstream.commits[1].login = "bob" /\ upstream.commits[2].login = NoLogin
    /\ upstream.pullRequests[1].comments[1].login = NoLogin
    /\ upstream.issues[1].login = "bob"
    /\ call[c].results.commits = 0 /\ call[c].results.prComments = 0
    /\ call[c].results.issues = 0
    /\ sink.commits = {} /\ sink.issues = {}
    /\ store[Key(c)].totalItems.commits = 0

\* C28: with calls one at a time, the five totals a call returns are the five
\* totals of the key's record right after the call: the record the call wrote
\* (full, incremental) or the record it read and left alone (cache hit).
C28_OutcomeMatchesStore ==
  \A c \in Calls :
    call[c].pc = "done" =>
      /\ store[Key(c)] # NoRecord
      /\ TotalsOf(call[c].outcome) = store[Key(c)].totalItems
      /\ call[c].branch = "cache" => store[Key(c)] = call[c].lastSync

\* an incremental sync added new commits to non-zero stored commits and
\* returned the sum, which is what the record now holds
C28_Witness ==
  \E c \in Calls :
    /\ call[c].pc = "done" /\ call[c].branch = "incremental"
    /\ call[c].results.commits > 0
    /\ call[c].lastSync.totalItems.commits > 0
    /\ call[c].outcome.commits = store[Key(c)].totalItems.commits
    /\ call[c].outcome.commits = call[c].lastSync.totalItems.commits + call[c].results.commits

\* what isIncrementalSyncValid answers for the record a call read, asked with
\* expiryDate = incrementalSyncExpiryDate at the instant of the call
StoreSaysValid(c) ==
  isIncrementalSyncValid([store EXCEPT ![Key(c)] = call[c].lastSync], Key(c),
                         incrementalSyncExpiryDate(call[c].began))

\* a call that read a record and chose its branch
ReadRecord(c) ==
  call[c].pc # "idle" /\ call[c].lastSync # NoRecord

\* C29 as stated: for every record and instant, the engine serves the call
\* from the cache exactly when isIncrementalSyncValid with
\* expiryDate = now - interval says the record is valid, also when the
\* record's age is exactly the interval.
C29_FreshnessTestsAgree ==
  \A c \in Calls :
    ReadRecord(c) => ((call[c].branch = "cache") <=> StoreSaysValid(c))

\* C29, amended: the two tests agree for every record whose age is not
\* exactly the interval; at an age of exactly the interval the engine does
\* not serve from the cache while isIncrementalSyncValid says valid.
C29_FreshnessTestsAgreeOffBoundary ==
  \A c \in Calls :
    ReadRecord(c) =>
      IF call[c].began - call[c].lastSync.lastSyncDate = incrementalSyncIntervalHours
      THEN call[c].branch = "incremental" /\ StoreSaysValid(c)
      ELSE (call[c].branch = "cache") <=> StoreSaysValid(c)

\* calls on records younger than, exactly as old as, and older than the
\* interval: here the one exactly as old, synced incrementally while the
\* store predicate calls it valid
C29_Witness ==
  \E c \in Calls :
    /\ ReadRecord(c) /\ call[c].pc = "done"
    /\ call[c].began - call[c].lastSync.lastSyncDate = incrementalSyncIntervalHours
    /\ call[c].branch = "incremental"
    /\ StoreSaysValid(c)

\* the dates X the two store predicates are asked about: every instant of
\* the aged histories, and one hour to either side
Dates == (StartNow - 1) .. (StartNow + fullSyncIntervalHours + incrementalSyncIntervalHours + 1)

\* C30: for any key and any date X, a key with a record satisfies exactly one
\* of isIncrementalSyncValid(key, X) and isFullSyncRequired(key, X), the
\* first when lastSyncDate >= X and the second when lastSyncDate < X; a key
\* with no record satisfies neither.
C30_StorePredicatesPartition ==
  \A u \in Users : \A X \in Dates :
    IF store[u] # NoRecord
    THEN /\ isIncrementalSyncValid(store, u, X) <=> ~isFullSyncRequired(store, u, X)
         /\ isIncrementalSyncValid(store, u, X) <=> (store[u].lastSyncDate >= X)
    ELSE ~isIncrementalSyncValid(store, u, X) /\ ~isFullSyncRequired(store, u, X)

\* after a sync wrote one key's record: dates on both sides of its
\* lastSyncDate, and another key that was never synced
C30_Witness ==
  /\ \E c \in Calls : call[c].pc = "done" /\ call[c].branch # "cache"
  /\ \E u \in Users :
       /\ store[u] # NoRecord
       /\ \E X \in Dates : isIncrementalSyncValid(store, u, X) /\ ~isFullSyncRequired(store, u, X)
       /\ \E X \in Dates : isFullSyncRequired(store, u, X) /\ ~isIncrementalSyncValid(store, u, X)
  /\ \E u \in Users :
       /\ store[u] = NoRecord
       /\ \A X \in Dates : ~isFullSyncRequired(store, u, X) /\ ~isIncrementalSyncValid(store, u, X)

\* a step that is a direct request op to the store service
Requests(op) == request' # request /\ request'.op = op

\* the three markers of a record
Markers(r) == <<r.lastCommitSha, r.lastPRNumber, r.lastIssueNumber>>

\* C31: incrementTotalItems(username, repo, d) on an existing record adds each
\* of the five components of d to the stored total and sets lastSyncDate to
\* the current instant, leaving lastCommitSha, lastPRNumber and
\* lastIssueNumber as they were; on a key with no record it creates nothing
\* and changes nothing; of two increments made one after the other the totals
\* are the earlier totals plus both, whichever came first.
C31_AdditiveIncrement ==
  [][Requests("increment") =>
       LET u == request'.username
           d == request'.delta
       IN /\ \A v \in Users \ {u} : store'[v] = store[v]
          /\ documents' = documents
          /\ IF store[u] = NoRecord
             THEN store'[u] = NoRecord
             ELSE /\ store'[u] # NoRecord
                  /\ \A k \in TotalKeys :
                       store'[u].totalItems[k] = store[u].totalItems[k] + d[k]
                  /\ store'[u].lastSyncDate = now
                  /\ Markers(store'[u]) = Markers(store[u])
                  /\ (request.op = "increment" /\ request.username = u
                       /\ request.after = store /\ request.before[u] # NoRecord)
                     => \A k \in TotalKeys :
                          store'[u].totalItems[k] =
                            request.before[u].totalItems[k] + request.delta[k] + d[k]
  ]_vars

\* a second increment in a row, on a record a sync wrote earlier with commits
\* counted and a commit marker set
C31_Witness ==
  /\ request.op = "increment" /\ request.n = 2
  /\ request.after = store
  /\ LET u == request.username IN
       /\ request.before[u] # NoRecord
       /\ request.before[u].totalItems.commits > 0
       /\ request.before[u].lastCommitSha # Undefined
       /\ request.before[u].lastSyncDate < now
       /\ store[u].lastSyncDate = now
       /\ store[u].totalItems.commits = request.before[u].totalItems.commits + request.delta.commits
       /\ request.delta.commits > 0
       /\ \E v \in Users : store[v] = NoRecord

\* a record without the fields T
Apart(r, T) == [f \in (DOMAIN r) \ T |-> r[f]]

\* the latest request was an upsert naming the same key and values as the
\* one being made, and nothing has written to the collection since
Repeated ==
  /\ request.op = "upsert"
  /\ request.after = store
  /\ Apart(request.syncData, {"fetchedAt"}) = Apart(request'.syncData, {"fetchedAt"})

\* what an upsert step does to the fields, apart from the timestamps T: the
\* named fields are written and the others kept; an absent key gets one
\* record; the same upsert made again changes nothing
PartialUpsert(T) ==
  Requests("upsert") =>
    LET u == request'.username
        syncData == request'.syncData
        F == Named(syncData)
    IN /\ \A v \in Users \ {u} : store'[v] = store[v] /\ documents'[v] = documents[v]
       /\ store'[u] # NoRecord /\ documents'[u] = 1
       /\ \A f \in F : store'[u][f] = syncData[f]
       /\ store'[u].fetchedAt = now
       /\ store[u] # NoRecord =>
            Apart(store'[u], T \cup F) = Apart(store[u], T \cup F)
       /\ Repeated => Apart(store'[u], T) = Apart(store[u], T)

\* C32 as stated: an upsert naming a subset of the fields of an existing
\* record overwrites exactly those fields and fetchedAt and leaves every
\* other stored field of the record as it was; for an absent key it inserts
\* one record; the same upsert applied twice leaves the same record, apart
\* from fetchedAt, as applied once.
C32_PartialUpsert == [][PartialUpsert({"fetchedAt"})]_vars

\* C32, amended: as stated, with updatedAt, which the schema's timestamps
\* option advances on every update, excepted along with fetchedAt.
C32_PartialUpsertApartFromTimestamps == [][PartialUpsert({"fetchedAt", "updatedAt"})]_vars

\* the same upsert of the totals alone made a second time, an interval after
\* the first, on a record whose markers and lastSyncDate a sync had written:
\* they, the totals and createdAt are as after the first; the timestamps moved
C32_Witness ==
  /\ request.op = "upsert" /\ request.n = 2
  /\ request.after = store
  /\ Named(request.syncData) = {"totalItems"}
  /\ LET u == request.username IN
       /\ request.before[u] # NoRecord
       /\ request.before[u].totalItems = request.syncData.totalItems
       /\ request.before[u].lastCommitSha \notin {Undefined, Supplied(now).lastCommitSha}
       /\ request.before[u].updatedAt < now
       /\ store[u].updatedAt = now /\ store[u].fetchedAt = now
       /\ Apart(store[u], {"fetchedAt", "updatedAt"}) =
            Apart(request.before[u], {"fetchedAt", "updatedAt"})

\* the latest request was asked to remove the record key u then had
AskedToRemove(u) ==
  /\ request.before[u] # NoRecord
  /\ \/ request.op = "delete" /\ request.username = u
     \/ request.op = "cleanup" /\ request.before[u].lastSyncDate < request.date

\* a step that starts a syncUserRepoActivity call
Starts(c) == call[c].pc = "idle" /\ call'[c].pc # "idle"

\* C33: cleanup(olderThan) removes exactly the records whose lastSyncDate is
\* strictly earlier than olderThan and leaves all others, those dated
\* olderThan included, as they were; deleteByUsernameAndRepo removes the
\* record of the given key and no other; and the first syncUserRepoActivity
\* call on a key after either was asked to remove its record takes the
\* full-sync branch.
C33_DeletionScope ==
  [][/\ Requests("cleanup") =>
          \A u \in Users :
            store'[u] = IF store[u] # NoRecord /\ store[u].lastSyncDate < request'.date
                        THEN NoRecord ELSE store[u]
     /\ Requests("delete") =>
          \A u \in Users :
            store'[u] = IF u = request'.username THEN NoRecord ELSE store[u]
     /\ \A c \in Calls :
          (Starts(c) /\ AskedToRemove(call'[c].username)
             /\ store[call'[c].username] = request.after[call'[c].username])
          => call'[c].branch = "full"
  ]_vars

\* cleanup removed alice's record, kept bob's dated exactly olderThan, and
\* the next call on alice's key synced in full from the analysis horizon
C33_Witness ==
  /\ request.op = "cleanup"
  /\ AskedToRemove("alice")
  /\ request.after["alice"] = NoRecord
  /\ request.before["bob"] # NoRecord
  /\ request.before["bob"].lastSyncDate = request.date
  /\ request.after["bob"] = request.before["bob"]
  /\ call[1].pc = "done" /\ call[1].username = "alice"
  /\ call[1].began >= request.date
  /\ call[1].branch = "full"
  /\ call[1].sixMonthsAgo = analysisStartDate(call[1].began)
  /\ store["alice"] # NoRecord /\ store["alice"].createdAt = call[1].began

\* C34: each of the commit, pull-request and issue limits of the query an
\* incremental sync sends is smaller than the configured limit of the same
\* kind that the full-sync query uses.
C34_SmallerIncrementalLimits ==
  \A c \in Calls :
    (call[c].branch = "incremental" /\ call[c].queries > 0) =>
      \A k \in Kinds : IncrementalFirst[k] < FullFirst[k]

\* C35: when ENABLE_INCREMENTAL_SYNC is false, a syncUserRepoActivity call
\* that has read the watermark takes neither the cache-fresh nor the
\* incremental branch, whatever the record: it syncs in full from the
\* analysis horizon. (The engine reads no setting: the states below are those
\* of every setting.)
C35_DisableFlagForcesFullSync ==
  \A setting \in Settings :
    ~enableIncrementalSync(setting) =>
      \A c \in Calls :
        call[c].branch # "none" =>
          /\ call[c].branch = "full"
          /\ call[c].since = analysisStartDate(call[c].began)

====
